---- MODULE Spec2Model ----
(***************************************************************************)
(* Model of the Morse timing decoder of MorseCodeGUI.py: the Window        *)
(* methods on_press, on_release, repeat_key, addDit, addDah,               *)
(* startEndCharacterTimer, endCharacter, enableRepeatMode and              *)
(* handleMorseCode, together with the QTimer objects they create, the      *)
(* action classes handleMorseCode dispatches to and the TypeState object   *)
(* the keystroke actions write to.  Further specifications cover the       *)
(* Primary key held alone in fast TwoKey mode, Window.stopIt, and the      *)
(* launch path with the settings dialog and the key listener thread,       *)
(* whose keyEvent signals reach the Window through a queued channel, on    *)
(* Linux and on MacOS, a restart by the GO button after stopIt, and the    *)
(* mouse actions of ActionLegacy with the pointer and buttons they leave.  *)
(*                                                                         *)
(* Time is in milliseconds and advances in steps of the fast-repeat        *)
(* period.  A timer that is due fires before the clock advances; key       *)
(* events and due timers at the same instant are handled by the Qt event   *)
(* loop in either order.                                                   *)
(***************************************************************************)
EXTENDS Integers, Sequences, FiniteSets, TLC

\* ---- bounds of the exploration ----
MaxTicks == 3         \* the clock advances this many times
MaxLen == 2           \* longest code buffered in currentCharacter
MaxTimers == 3        \* most QTimer objects running at once
MaxCodes == 4         \* codes dispatched in a row to the typing layout
HoldTicks == 5        \* the clock advances this many times while Primary is operated alone
HoldLen == 6          \* longest code buffered while Primary is operated alone
MaxEvents == 4        \* keyEvent signals emitted by the key listener
MaxStarts == 1        \* times the GO button starts the engine
MaxMouse == 3         \* mouse actions dispatched in a row

\* ---- program constants ----
FastInterval == 100   \* fast_morse_mode_timer.start(100)
RepeatInterval == 300 \* repeat_character_timer.start(300)
Dit == 1              \* addDit appends 1
Dah == 2              \* addDah appends 2

None == -1            \* Python None for integer-valued fields (times, timer handles)
Roles == 0..2         \* index of the key in configured_keys: keyone, keytwo, keythree

VARIABLES
  config,   \* keylen (the arity radio button), fastMorseMode, maxDitTime, minLetterPause,
            \* keyone, keytwo, keythree (and autostart where the launch is modelled)
  window,   \* the fields of the Window object (with the active layout name of its
            \* LayoutManager; listenerThread and codeslayoutview are TRUE when they
            \* reference an object), the running QTimers and the step's outputs
  now,      \* time.time(), in ms
  down,     \* down[r]: the physical key of role r is held (a press was raised, no release yet)
  ev,       \* the step just taken: [op, rep], rep = repeaton was set when a press arrived
  obs,      \* history: [t, typed, fins] since the last key event, interrupted;
            \* codes handed to handleMorseCode by DispatchCode and the keys synthesized;
            \* the keyEvent signals emitted (raised) and handled (delivered) and
            \* the number of times the engine was started; the pointer position
            \* and the mouse buttons held, as the calls of the mouse library left them
  channel   \* the keyEvent signals queued for the thread of the Window, oldest first

vars == <<config, window, now, down, ev, obs, channel>>

\* ---- the layout file (layouts.json, after LayoutManager.set_actions) ----
\* An item is [code, _action, key, character, target, slot]: _action is the class
\* of the action object ("None" when set_actions found no action), key and
\* character come from key_data, target is the layout a CHANGELAYOUT item names,
\* slot the index a PREDICTION_SELECT item names.
Item(code, action, key, character, target, slot) ==
  [code |-> code, _action |-> action, key |-> key, character |-> character,
   target |-> target, slot |-> slot]

Layouts ==
  [ basic |->
      << Item("1",  "ActionKeyStroke", "e", "e", "", None),
         Item("2",  "RepeatOnAction", "", "", "", None),
         Item("11", "None", "", "", "", None) >>,
    main |->
      << Item("1",  "ChangeLayoutAction", "", "", "nav", None),
         Item("2",  "RepeatOnAction", "", "", "", None),
         Item("11", "ChangeLayoutAction", "", "", "nowhere", None),
         Item("12", "ActionLegacy", "MOUSECLICKLEFT", "", "", None),
         Item("21", "ChangeLayoutAction", "", "", "nav", None) >>,
    nav |->
      << Item("1",  "ActionKeyStroke", "e", "e", "", None),
         Item("2",  "RepeatOnAction", "", "", "", None),
         Item("11", "ChangeLayoutAction", "", "", "main", None),
         Item("21", "ChangeLayoutAction", "", "", "main", None) >>,
    typing |->
      << Item("1",  "ActionKeyStroke", "b", "b", "", None),
         Item("2",  "ActionKeyStroke", "r", "r", "", None),
         Item("11", "ActionKeyStroke", "space", " ", "", None),
         Item("12", "ActionKeyStroke", "backspace", "BS", "", None),
         Item("21", "PredictionSelectLayoutAction", "", "", "", 0),
         Item("22", "RepeatOnAction", "", "", "", None) >>,
    mouse |->
      << Item("1", "ActionLegacy", "MOUSEUP5", "", "", None),
         Item("2", "ActionLegacy", "MOUSEDOWN5", "", "", None),
         Item("11", "ActionLegacy", "MOUSELEFT5", "", "", None),
         Item("12", "ActionLegacy", "MOUSERIGHT5", "", "", None),
         Item("21", "ActionLegacy", "MOUSEUPLEFT5", "", "", None),
         Item("22", "ActionLegacy", "MOUSEUPRIGHT5", "", "", None),
         Item("111", "ActionLegacy", "MOUSEDOWNLEFT5", "", "", None),
         Item("112", "ActionLegacy", "MOUSEDOWNRIGHT5", "", "", None),
         Item("121", "ActionLegacy", "MOUSEUP40", "", "", None),
         Item("122", "ActionLegacy", "MOUSEDOWN40", "", "", None),
         Item("211", "ActionLegacy", "MOUSELEFT40", "", "", None),
         Item("212", "ActionLegacy", "MOUSERIGHT40", "", "", None),
         Item("221", "ActionLegacy", "MOUSEUPLEFT40", "", "", None),
         Item("222", "ActionLegacy", "MOUSEUPRIGHT40", "", "", None),
         Item("1111", "ActionLegacy", "MOUSEDOWNLEFT40", "", "", None),
         Item("1112", "ActionLegacy", "MOUSEDOWNRIGHT40", "", "", None),
         Item("1121", "ActionLegacy", "MOUSEUP250", "", "", None),
         Item("1122", "ActionLegacy", "MOUSEDOWN250", "", "", None),
         Item("1211", "ActionLegacy", "MOUSELEFT250", "", "", None),
         Item("1212", "ActionLegacy", "MOUSERIGHT250", "", "", None),
         Item("1221", "ActionLegacy", "MOUSEUPLEFT250", "", "", None),
         Item("1222", "ActionLegacy", "MOUSEUPRIGHT250", "", "", None),
         Item("2111", "ActionLegacy", "MOUSEDOWNLEFT250", "", "", None),
         Item("2112", "ActionLegacy", "MOUSEDOWNRIGHT250", "", "", None),
         Item("2121", "ActionLegacy", "MOUSECLICKLEFT", "", "", None),
         Item("2122", "ActionLegacy", "MOUSECLICKRIGHT", "", "", None),
         Item("2211", "ActionLegacy", "MOUSECLKHLDLEFT", "", "", None),
         Item("2212", "ActionLegacy", "MOUSECLKHLDRIGHT", "", "", None),
         Item("2221", "ActionLegacy", "MOUSERELEASEHOLD", "", "", None) >> ]

\* abbreviations_en.txt, as load_abbreviations returns it: one entry, brb
Abbreviations ==
  [abbr |-> <<"b", "r", "b">>,
   expansion |-> <<"b", "e", " ", "r", "i", "g", "h", "t", " ", "b", "a", "c", "k">>]

\* the ranked list presage.predict() returns
Predictions == << <<"b", "e">> >>

Whitespace == {" ", "\n", "\t", "\r"}

\* "".join(str(char) for char in character)
RECURSIVE MorseCodeString(_)
MorseCodeString(character) ==
  IF character = <<>> THEN ""
  ELSE ToString(Head(character)) \o MorseCodeString(Tail(character))

\* ---- QTimer objects ----
\* window.timers is the set of running timers, each [id, kind, due, role].
TimerIds(timers) == { t.id : t \in timers }

NewTimerId(timers) ==
  CHOOSE i \in 0..Cardinality(timers) :
    /\ i \notin TimerIds(timers)
    /\ \A j \in 0..Cardinality(timers) : j \notin TimerIds(timers) => i <= j

\* QTimer.stop()
StopTimer(timers, id) == { t \in timers : t.id # id }

\* the clock's step, and the configurations explored
Quantum == FastInterval
Configs == [keylen : 1..3, fastMorseMode : BOOLEAN,
            maxDitTime : {Quantum}, minLetterPause : {2 * Quantum},
            mainlayout : {"basic"}, mouse_raises : {FALSE},
            keyone : {"SPACE"}, keytwo : {"ENTER"}, keythree : {"RCTRL"}, platform : {"Linux"}]

OneKey == config.keylen = 1
TwoKey == config.keylen = 2
ThreeKey == config.keylen = 3

\* variant: the release arms the boundary timer in every mode
TimerDrivenMode_EveryMode == TRUE

\* on_release, line 1357: the modes in which a release arms the boundary timer
TimerDrivenMode == OneKey \/ TwoKey

\* ---- Window methods, as functions on the Window record ----

enableRepeatMode(s) == [s EXCEPT !.repeaton = TRUE]

\* ---- TypeState, the text-cursor object ----
\* Values that may be None, a str or the tuple (None, None)
NoneValue == [tag |-> "None", val |-> <<>>]
NoneTuple == [tag |-> "tuple", val |-> <<>>]
Str(chars) == [tag |-> "str", val |-> chars]

\* TypeState.__init__; text is a sequence of characters
TypeState ==
  [is_none |-> FALSE, text |-> <<>>, expanded_text |-> NoneValue, keyLength |-> 0]

\* no TypeState object
NoTypeState == [TypeState EXCEPT !.is_none = TRUE]

\* the module global of line 61, which no statement of the file assigns
typestate == NoTypeState

pushchar(ts, char) == [ts EXCEPT !.text = Append(@, char)]

popchar(ts) ==
  [ts EXCEPT !.text = IF @ = <<>> THEN <<>> ELSE SubSeq(@, 1, Len(@) - 1)]

\* str.split() drops trailing whitespace before the last word
RECURSIVE rstrip(_)
rstrip(text) ==
  IF text # <<>> /\ text[Len(text)] \in Whitespace
    THEN rstrip(SubSeq(text, 1, Len(text) - 1))
    ELSE text

\* keys.split()[-1], for keys with a word in it
RECURSIVE LastWord(_)
LastWord(text) ==
  IF text = <<>> \/ text[Len(text)] \in Whitespace THEN <<>>
  ELSE Append(LastWord(SubSeq(text, 1, Len(text) - 1)), text[Len(text)])

\* words[-1] raises IndexError when keys holds no word
expand_abbreviation(keys) ==
  LET last_word == LastWord(rstrip(keys))
  IN IF rstrip(keys) = <<>>
       THEN [raised |-> TRUE, expansion |-> NoneValue, length |-> None]
     ELSE IF last_word = Abbreviations.abbr
       THEN [raised |-> FALSE, expansion |-> Str(Abbreviations.expansion),
             length |-> Len(last_word)]
     ELSE [raised |-> FALSE, expansion |-> NoneValue, length |-> None]

\* the except branch assigns the tuple (None, None) to expanded_text and leaves
\* keyLength as the last call set it
get_abbreviation(ts) ==
  LET r == expand_abbreviation(ts.text)
  IN IF r.raised
       THEN [ts EXCEPT !.expanded_text = NoneTuple]
       ELSE [ts EXCEPT !.expanded_text = r.expansion, !.keyLength = r.length]

\* ---- the action classes; s.keys is what keyboard.press_and_release was given ----

\* lines 748-750: popchar and a backspace, keylength times
RECURSIVE EraseWord(_, _)
EraseWord(s, n) ==
  IF n = 0 THEN s
  ELSE EraseWord([s EXCEPT !.typestate = popchar(@),
                           !.keys = Append(@, "backspace")], n - 1)

\* lines 746-753, with the abbreviation and keylength get_abbreviation returned
ExpandAbbreviation(s, abbreviation, keylength) ==
  IF abbreviation.tag = "None" THEN s
  ELSE IF keylength = None THEN s                 \* range(None): TypeError
  ELSE IF abbreviation.tag = "tuple"
    THEN EraseWord(s, keylength)                  \* press_and_release(None) raises
  ELSE [EraseWord(s, keylength) EXCEPT !.keys = @ \o abbreviation.val \o <<"space">>]

\* lines 735-744: the key is pressed, then typestate is updated
PressKey(s, item) ==
  [s EXCEPT !.keys = Append(@, item.key),
            !.typestate = get_abbreviation(
                            IF item.key \in {"backspace", "delete"}
                              THEN popchar(@) ELSE pushchar(@, item.character))]

\* lines 746-753 on the outcome of get_abbreviation
AfterKey(s) == ExpandAbbreviation(s, s.typestate.expanded_text, s.typestate.keyLength)

\* ActionKeyStroke.perform for a key that is not a toggle key; every exception is
\* caught by the except of line 755, after the effects that came before it
ActionKeyStroke_perform(s, item) ==
  IF s.typestate.is_none
    THEN s   \* line 733 reads self.window.typestate.past_stream(): AttributeError
    ELSE AfterKey(PressKey(s, item))

\* variant: the layout name is made active without looking it up
changeLayout_Unchecked(s, layout_name) ==
  [s EXCEPT !.active_layout_name = layout_name]

\* Window.changeLayout
changeLayout(s, layout_name) ==
  IF layout_name \in DOMAIN Layouts
    THEN [s EXCEPT !.active_layout_name = layout_name, !.codeslayoutview = TRUE]
    ELSE s

ChangeLayoutAction_perform(s, item) == changeLayout(s, item.target)

\* lines 805-810: the part of the text after the last whitespace, looked for in
\* the last len(pred) positions
RECURSIVE StripSuffix(_, _, _)
StripSuffix(text, i, n) ==
  IF i >= n THEN <<>>
  ELSE LET idx == Len(text) - i
       IN IF idx = 0 \/ (idx > 0 /\ text[idx] \in Whitespace)
            THEN SubSeq(text, idx + 1, Len(text))
            ELSE StripSuffix(text, i + 1, n)

\* PredictionSelectLayoutAction.perform tests the module global, not
\* window.typestate
PredictionSelectLayoutAction_perform(s, item) ==
  IF typestate.is_none THEN s
  ELSE IF item.slot >= 0 /\ item.slot < Len(Predictions)
    THEN LET pred == Predictions[item.slot + 1]
             stripsuffix == StripSuffix(typestate.text, 0, Len(pred))
             newchars == SubSeq(pred, Len(stripsuffix) + 1, Len(pred)) \o <<" ">>
         IN [s EXCEPT !.keys = @ \o newchars]
    ELSE s

\* mouse.LEFT, mouse.RIGHT
LEFT == "left"
RIGHT == "right"

\* moveMouse: mouse.move(x_delta, y_delta, False), a move relative to the pointer
moveMouse(x_delta, y_delta) ==
  [call |-> "move", x |-> x_delta, y |-> y_delta, absolute |-> FALSE, button |-> ""]

\* clickMouse: mouse.click, mouse.press or mouse.release of the button
clickMouse(button, action) ==
  [call |-> action, x |-> 0, y |-> 0, absolute |-> FALSE,
   button |-> IF button = "left" THEN LEFT ELSE RIGHT]

\* variant: MOUSEUP40 moves the pointer down
action_map_Up40MovesDown ==
  [
    MOUSEUP5 |-> moveMouse(0, -5),
    MOUSEDOWN5 |-> moveMouse(0, 5),
    MOUSELEFT5 |-> moveMouse(-5, 0),
    MOUSERIGHT5 |-> moveMouse(5, 0),
    MOUSEUPLEFT5 |-> moveMouse(-5, -5),
    MOUSEUPRIGHT5 |-> moveMouse(5, -5),
    MOUSEDOWNLEFT5 |-> moveMouse(-5, 5),
    MOUSEDOWNRIGHT5 |-> moveMouse(5, 5),
    MOUSEUP40 |-> moveMouse(0, 40),
    MOUSEDOWN40 |-> moveMouse(0, 40),
    MOUSELEFT40 |-> moveMouse(-40, 0),
    MOUSERIGHT40 |-> moveMouse(40, 0),
    MOUSEUPLEFT40 |-> moveMouse(-40, -40),
    MOUSEUPRIGHT40 |-> moveMouse(40, -40),
    MOUSEDOWNLEFT40 |-> moveMouse(-40, 40),
    MOUSEDOWNRIGHT40 |-> moveMouse(40, 40),
    MOUSEUP250 |-> moveMouse(0, -250),
    MOUSEDOWN250 |-> moveMouse(0, 250),
    MOUSELEFT250 |-> moveMouse(-250, 0),
    MOUSERIGHT250 |-> moveMouse(250, 0),
    MOUSEUPLEFT250 |-> moveMouse(-250, -250),
    MOUSEUPRIGHT250 |-> moveMouse(250, -250),
    MOUSEDOWNLEFT250 |-> moveMouse(-250, 250),
    MOUSEDOWNRIGHT250 |-> moveMouse(250, 250),
    MOUSECLICKLEFT |-> clickMouse(LEFT, "click"),
    MOUSECLICKRIGHT |-> clickMouse(RIGHT, "click"),
    MOUSECLKHLDLEFT |-> clickMouse(LEFT, "press"),
    MOUSECLKHLDRIGHT |-> clickMouse(RIGHT, "press"),
    MOUSERELEASEHOLD |-> clickMouse(LEFT, "release") ]

\* ActionLegacy.perform, lines 653-683
action_map ==
  [
    MOUSEUP5 |-> moveMouse(0, -5),
    MOUSEDOWN5 |-> moveMouse(0, 5),
    MOUSELEFT5 |-> moveMouse(-5, 0),
    MOUSERIGHT5 |-> moveMouse(5, 0),
    MOUSEUPLEFT5 |-> moveMouse(-5, -5),
    MOUSEUPRIGHT5 |-> moveMouse(5, -5),
    MOUSEDOWNLEFT5 |-> moveMouse(-5, 5),
    MOUSEDOWNRIGHT5 |-> moveMouse(5, 5),
    MOUSEUP40 |-> moveMouse(0, -40),
    MOUSEDOWN40 |-> moveMouse(0, 40),
    MOUSELEFT40 |-> moveMouse(-40, 0),
    MOUSERIGHT40 |-> moveMouse(40, 0),
    MOUSEUPLEFT40 |-> moveMouse(-40, -40),
    MOUSEUPRIGHT40 |-> moveMouse(40, -40),
    MOUSEDOWNLEFT40 |-> moveMouse(-40, 40),
    MOUSEDOWNRIGHT40 |-> moveMouse(40, 40),
    MOUSEUP250 |-> moveMouse(0, -250),
    MOUSEDOWN250 |-> moveMouse(0, 250),
    MOUSELEFT250 |-> moveMouse(-250, 0),
    MOUSERIGHT250 |-> moveMouse(250, 0),
    MOUSEUPLEFT250 |-> moveMouse(-250, -250),
    MOUSEUPRIGHT250 |-> moveMouse(250, -250),
    MOUSEDOWNLEFT250 |-> moveMouse(-250, 250),
    MOUSEDOWNRIGHT250 |-> moveMouse(250, 250),
    MOUSECLICKLEFT |-> clickMouse(LEFT, "click"),
    MOUSECLICKRIGHT |-> clickMouse(RIGHT, "click"),
    MOUSECLKHLDLEFT |-> clickMouse(LEFT, "press"),
    MOUSECLKHLDRIGHT |-> clickMouse(RIGHT, "press"),
    MOUSERELEASEHOLD |-> clickMouse(LEFT, "release") ]

\* ActionLegacy.perform: the mouse call raises when the mouse library cannot
\* reach the pointer; s.mouse is what the mouse library was called with
ActionLegacy_perform(s, item) ==
  IF item.key = "" \/ item.key \notin DOMAIN action_map THEN s
  ELSE IF config.mouse_raises THEN [s EXCEPT !.exc = TRUE]
  ELSE [s EXCEPT !.mouse = Append(@, action_map[item.key])]

RepeatOnAction_perform(s, item) == enableRepeatMode(s)

\* action.perform()
Perform(s, item, morse_code) ==
  LET action == item._action
      called == [s EXCEPT !.perf = Append(@, [code |-> morse_code, action |-> action,
                                             key |-> item.key, target |-> item.target,
                                             slot |-> item.slot])]
  IN IF action = "ActionKeyStroke" THEN ActionKeyStroke_perform(called, item)
     ELSE IF action = "ChangeLayoutAction" THEN ChangeLayoutAction_perform(called, item)
     ELSE IF action = "PredictionSelectLayoutAction"
       THEN PredictionSelectLayoutAction_perform(called, item)
     ELSE IF action = "ActionLegacy" THEN ActionLegacy_perform(called, item)
     ELSE IF action = "RepeatOnAction" THEN RepeatOnAction_perform(called, item)
     ELSE called

\* LayoutManager.get_active_layout()['items']
ActiveLayoutItems(s) ==
  IF s.active_layout_name \in DOMAIN Layouts THEN Layouts[s.active_layout_name] ELSE <<>>

\* variant: a code without an item resolves to the first item of the layout
FindItem_FirstItem(s, morse_code) ==
  LET items == ActiveLayoutItems(s)
      hits == { i \in 1..Len(items) : items[i].code = morse_code }
  IN IF hits = {} THEN items[1]
     ELSE items[CHOOSE i \in hits : \A j \in hits : i <= j]

\* variant: an item whose code is the start of the buffered code resolves too
FindItem_PrefixMatch(s, morse_code) ==
  LET items == ActiveLayoutItems(s)
      hits == { i \in 1..Len(items) :
                  \E rest \in {"", "1", "2"} : items[i].code \o rest = morse_code }
  IN IF hits = {} THEN Item(morse_code, "None", "", "", "", None)
     ELSE items[CHOOSE i \in hits : \A j \in hits : i <= j]

\* the first item of the active layout with this code, "None" when there is none
FindItem(s, morse_code) ==
  LET items == ActiveLayoutItems(s)
      hits == { i \in 1..Len(items) : items[i].code = morse_code }
  IN IF hits = {} THEN Item(morse_code, "None", "", "", "", None)
     ELSE items[CHOOSE i \in hits : \A j \in hits : i <= j]

\* lines 1433-1437
PerformItem(s, item, morse_code) ==
  IF item._action # "None" THEN Perform(s, item, morse_code) ELSE s

\* variant: an exception of perform leaves handleMorseCode
Caught_Propagates(s, morse_code) == s

\* the except of line 1446 catches what perform raises and logs it
Caught(s, morse_code) ==
  IF s.exc THEN [s EXCEPT !.exc = FALSE, !.errors = Append(@, morse_code)] ELSE s

DispatchMorseCode(s, morse_code) ==
  IF morse_code = "" THEN s
  ELSE Caught(PerformItem(s, FindItem(s, morse_code), morse_code), morse_code)

handleMorseCode(s, character) == DispatchMorseCode(s, MorseCodeString(character))

\* self.codeslayoutview.Dit(), .Dah(), .reset(): AttributeError when it is None
ViewCall(s) == IF s.codeslayoutview THEN s ELSE [s EXCEPT !.exc = TRUE]

addDit(s) == ViewCall([s EXCEPT !.currentCharacter = Append(@, Dit)])

addDah(s) == ViewCall([s EXCEPT !.currentCharacter = Append(@, Dah)])

\* variant: the boundary timer is started with maxDitTime added to the pause
startEndCharacterTimer_LongerDelay(s) ==
  LET stopped == IF s.endCharacterTimer # None
                   THEN StopTimer(s.timers, s.endCharacterTimer)
                   ELSE s.timers
      id == NewTimerId(stopped)
  IN [s EXCEPT !.timers = stopped \cup
                   {[id |-> id, kind |-> "end",
                     due |-> now + config.minLetterPause + config.maxDitTime, role |-> None]},
               !.endCharacterTimer = id]

startEndCharacterTimer(s) ==
  LET stopped == IF s.endCharacterTimer # None
                   THEN StopTimer(s.timers, s.endCharacterTimer)
                   ELSE s.timers
      id == NewTimerId(stopped)
  IN [s EXCEPT !.timers = stopped \cup
                   {[id |-> id, kind |-> "end", due |-> now + config.minLetterPause, role |-> None]},
               !.endCharacterTimer = id]

\* endCharacter, lines 1395-1397
StopEndCharacterTimer(s) ==
  IF s.endCharacterTimer # None
    THEN [s EXCEPT !.timers = StopTimer(@, s.endCharacterTimer),
                   !.endCharacterTimer = None]
    ELSE s

\* endCharacter, line 1399; s.fin records the character handed over
HandleCurrentCharacter(s) ==
  handleMorseCode([s EXCEPT !.fin = Append(@, s.currentCharacter)], s.currentCharacter)

\* variant: the finalized character is never recorded as previousCharacter
RepeatOrRemember_Forgets(s) ==
  IF s.exc THEN s
  ELSE IF s.repeaton
    THEN IF s.previousCharacter # <<>>
           THEN [s EXCEPT !.timers = @ \cup
                      [id : {NewTimerId(s.timers)}, kind : {"repeat"},
                       due : {now + RepeatInterval}, role : {None}],
                          !.repeat_character_timer = NewTimerId(s.timers)]
           ELSE s
  ELSE s

\* variant: sticky repeat starts even when no previous character is recorded
RepeatOrRemember_AlwaysStarts(s) ==
  IF s.exc THEN s
  ELSE IF s.repeaton
    THEN [s EXCEPT !.timers = @ \cup
               [id : {NewTimerId(s.timers)}, kind : {"repeat"},
                due : {now + RepeatInterval}, role : {None}],
                   !.repeat_character_timer = NewTimerId(s.timers)]
  ELSE [s EXCEPT !.previousCharacter = s.currentCharacter, !.dispatched = s.perf]

\* endCharacter, lines 1401-1410: a new QTimer is created and started, whatever
\* repeat_character_timer referenced before; s.dispatched records what
\* handleMorseCode performed for the character that becomes previousCharacter
RepeatOrRemember(s) ==
  IF s.exc THEN s
  ELSE IF s.repeaton
    THEN IF s.previousCharacter # <<>>
           THEN [s EXCEPT !.timers = @ \cup
                      [id : {NewTimerId(s.timers)}, kind : {"repeat"},
                       due : {now + RepeatInterval}, role : {None}],
                          !.repeat_character_timer = NewTimerId(s.timers)]
           ELSE s
  ELSE [s EXCEPT !.previousCharacter = s.currentCharacter, !.dispatched = s.perf]

\* endCharacter, line 1412
ResetCurrentCharacter(s) ==
  IF s.exc THEN s ELSE [s EXCEPT !.currentCharacter = <<>>]

\* endCharacter, line 1413
ResetView(s) == IF s.exc THEN s ELSE ViewCall(s)

endCharacter(s) ==
  ResetView(
    ResetCurrentCharacter(RepeatOrRemember(HandleCurrentCharacter(StopEndCharacterTimer(s)))))

repeat_key(s, role) ==
  IF role = 0 THEN addDit(s)
  ELSE IF role = 1 THEN addDah(s)
  ELSE IF role = 2 THEN endCharacter(s)
  ELSE s

\* key == 'P' and self.key_state[...]: the keys handed to handle_key_event are
\* key codes of configured_keys, none of which is 'P'
check_disable_combination(role) == FALSE

\* variant: the sticky-repeat timer is stopped without testing the handle, and
\* None.stop() raises
ResetRepeat_Unguarded(s) ==
  LET s0 == [s EXCEPT !.repeaton = FALSE]
  IN IF s0.repeat_character_timer # None
       THEN [s0 EXCEPT !.timers = StopTimer(@, s0.repeat_character_timer),
                       !.repeat_character_timer = None]
       ELSE [s0 EXCEPT !.exc = TRUE]

\* variant: the press stops the sticky-repeat timer but leaves repeaton set
ResetRepeat_KeepsFlag(s) ==
  IF s.repeat_character_timer # None
    THEN [s EXCEPT !.timers = StopTimer(@, s.repeat_character_timer),
                   !.repeat_character_timer = None]
    ELSE s

\* on_press, lines 1288-1291
ResetRepeat(s) ==
  LET s0 == [s EXCEPT !.repeaton = FALSE]
  IN IF s0.repeat_character_timer # None
       THEN [s0 EXCEPT !.timers = StopTimer(@, s0.repeat_character_timer),
                       !.repeat_character_timer = None]
       ELSE s0

\* variant: fastMorseMode arms the fast-repeat timer in every mode
ArmFastRepeat_AnyMode(s, role) ==
  IF config.fastMorseMode
    THEN LET id == NewTimerId(s.timers)
         IN [s EXCEPT !.timers = @ \cup
                 {[id |-> id, kind |-> "fast", due |-> now + FastInterval, role |-> role]},
                      !.fast_morse_mode_timer = id]
    ELSE s

\* on_press, lines 1309-1312
ArmFastRepeat(s, role) ==
  IF config.fastMorseMode /\ ~OneKey
    THEN LET id == NewTimerId(s.timers)
         IN [s EXCEPT !.timers = @ \cup
                 {[id |-> id, kind |-> "fast", due |-> now + FastInterval, role |-> role]},
                      !.fast_morse_mode_timer = id]
    ELSE s

on_press(s, role) ==
  LET s1 == ResetRepeat(s)
  IN IF check_disable_combination(role)
       THEN [s1 EXCEPT !.inputDisabled = ~@]
     ELSE IF s1.inputDisabled THEN s1
     ELSE IF s1.lastKeyDownTime # None THEN s1
     ELSE LET s2 == ArmFastRepeat([s1 EXCEPT !.lastKeyDownTime = now], role)
          IN IF ~OneKey THEN repeat_key(s2, role) ELSE s2

\* variant: a hold of exactly maxDitTime is classified as a dit
Classify_BoundaryIsDit(s, duration) ==
  IF duration <= config.maxDitTime THEN addDit(s) ELSE addDah(s)

\* on_release, lines 1351-1355
Classify(s, duration) ==
  IF duration < config.maxDitTime THEN addDit(s) ELSE addDah(s)

on_release(s, role) ==
  LET s1 == IF s.fast_morse_mode_timer # None
              THEN [s EXCEPT !.timers = StopTimer(@, s.fast_morse_mode_timer),
                             !.fast_morse_mode_timer = None]
              ELSE s
  IN IF s1.lastKeyDownTime # None
       THEN LET duration == now - s1.lastKeyDownTime
                s2 == [s1 EXCEPT !.lastKeyDownTime = None]
                s3 == IF OneKey THEN Classify(s2, duration) ELSE s2
            IN IF TimerDrivenMode /\ ~s3.exc THEN startEndCharacterTimer(s3) ELSE s3
       ELSE s1

\* the except clauses of on_press (line 1323) and on_release (line 1363) log
\* what the handler raised
LogWarning(s) == IF s.exc THEN [s EXCEPT !.exc = FALSE] ELSE s

handle_key_event(s, is_press, role) ==
  LogWarning(IF is_press THEN on_press(s, role) ELSE on_release(s, role))

\* Window.stopIt: the listener thread is stopped and the code view dropped
stopIt(s) == [s EXCEPT !.listenerThread = FALSE, !.codeslayoutview = FALSE]

\* ---- the state machine ----

\* The outputs of a step (codes handed to endCharacter, actions performed) start empty.
Begin(s) ==
  [s EXCEPT !.fin = <<>>, !.perf = <<>>, !.keys = <<>>, !.mouse = <<>>,
            !.errors = <<>>, !.exc = FALSE]

\* A step is taken only within the bounds of the exploration.
Within(s) == Len(s.currentCharacter) <= MaxLen /\ Cardinality(s.timers) <= MaxTimers

NonEmptyCodes(codes) == SelectSeq(codes, LAMBDA c : c # <<>>)

\* Window.__init__, with the layout LayoutManager.load_layouts made active
Window__init__ ==
  [currentCharacter |-> <<>>, previousCharacter |-> <<>>,
   lastKeyDownTime |-> None, endCharacterTimer |-> None,
   inputDisabled |-> FALSE, fast_morse_mode_timer |-> None,
   repeat_character_timer |-> None, repeaton |-> FALSE,
   listenerThread |-> FALSE, codeslayoutview |-> FALSE,
   active_layout_name |-> config.mainlayout,
   typestate |-> NoTypeState,
   timers |-> {}, dispatched |-> <<>>,
   fin |-> <<>>, perf |-> <<>>, keys |-> <<>>, mouse |-> <<>>,
   errors |-> <<>>, exc |-> FALSE]

\* Window.init
init(s) ==
  [s EXCEPT !.currentCharacter = <<>>, !.previousCharacter = <<>>, !.repeaton = FALSE,
            !.active_layout_name = config.mainlayout,
            !.typestate = IF config.mainlayout = "typing" THEN TypeState ELSE NoTypeState,
            !.codeslayoutview = TRUE]

\* Window.startKeyListener: a KeyListenerThread is created unless one exists
startKeyListener(s) == [s EXCEPT !.listenerThread = TRUE]

\* Window.start
start(s) == startKeyListener(init(s))

\* the state before the first key event
Launch(cfgs) ==
  /\ config \in cfgs
  /\ now = 0
  /\ down = [r \in Roles |-> FALSE]
  /\ ev = [op |-> "init", rep |-> FALSE]
  /\ obs = [t |-> 0, typed |-> <<>>, fins |-> <<>>, interrupted |-> TRUE,
            codes |-> <<>>, out |-> <<>>, raised |-> <<>>, delivered |-> <<>>, starts |-> 0,
            pointer |-> <<0, 0>>, buttons |-> {}]
  /\ channel = <<>>

\* the engine started by Window.start or Window.goForIt, for the configurations in cfgs
Start(cfgs) ==
  /\ Launch(cfgs)
  /\ window = start(Window__init__)

Init == Start(Configs)

\* KeyListenerThread.on_press -> keyEvent -> Window.handle_key_event(key, True, role);
\* the OS raises press events again while the key stays down (auto-repeat)
KeyPress(role) ==
  LET w == handle_key_event(Begin(window), TRUE, role)
  IN /\ window.listenerThread
     /\ Within(w)
     /\ window' = w
     /\ down' = [down EXCEPT ![role] = TRUE]
     /\ ev' = [op |-> "press", rep |-> window.repeaton]
     /\ obs' = [obs EXCEPT !.t = now, !.typed = w.currentCharacter, !.fins = <<>>,
                           !.interrupted = (w.repeat_character_timer = None)]
     /\ UNCHANGED <<config, now, channel>>

\* KeyListenerThread.on_release -> keyEvent -> Window.handle_key_event(key, False, role)
KeyRelease(role) ==
  LET w == handle_key_event(Begin(window), FALSE, role)
  IN /\ window.listenerThread
     /\ down[role]
     /\ Within(w)
     /\ window' = w
     /\ down' = [down EXCEPT ![role] = FALSE]
     /\ ev' = [op |-> "release", rep |-> FALSE]
     /\ obs' = [obs EXCEPT !.t = now, !.typed = w.currentCharacter, !.fins = <<>>]
     /\ UNCHANGED <<config, now, channel>>

\* endCharacterTimer.timeout -> endCharacter (single shot)
EndCharacterTimeout(t) ==
  LET w == endCharacter([Begin(window) EXCEPT !.timers = @ \ {t}])
  IN /\ t.kind = "end" /\ t.due <= now
     /\ Within(w)
     /\ window' = w
     /\ ev' = [op |-> "end", rep |-> FALSE]
     /\ obs' = [obs EXCEPT !.fins = @ \o NonEmptyCodes(w.fin),
                           !.interrupted = IF w.repeat_character_timer # window.repeat_character_timer
                                        THEN FALSE ELSE @]
     /\ UNCHANGED <<config, now, down, channel>>

\* fast_morse_mode_timer.timeout -> repeat_key(key, role) (periodic)
FastRepeatTimeout(t) ==
  LET rearmed == (window.timers \ {t}) \cup {[t EXCEPT !.due = now + FastInterval]}
      w == repeat_key([Begin(window) EXCEPT !.timers = rearmed], t.role)
  IN /\ t.kind = "fast" /\ t.due <= now
     /\ Within(w)
     /\ window' = w
     /\ ev' = [op |-> "fast", rep |-> FALSE]
     /\ obs' = [obs EXCEPT !.fins = @ \o NonEmptyCodes(w.fin),
                           !.interrupted = IF w.repeat_character_timer # window.repeat_character_timer
                                        THEN FALSE ELSE @]
     /\ UNCHANGED <<config, now, down, channel>>

\* repeat_character_timer.timeout -> handleMorseCode(previousCharacter) (periodic)
StickyRepeatTimeout(t) ==
  LET rearmed == (window.timers \ {t}) \cup {[t EXCEPT !.due = now + RepeatInterval]}
      s == [Begin(window) EXCEPT !.timers = rearmed]
      w == handleMorseCode(s, s.previousCharacter)
  IN /\ t.kind = "repeat" /\ t.due <= now
     /\ Within(w)
     /\ window' = w
     /\ ev' = [op |-> "repeat", rep |-> FALSE]
     /\ UNCHANGED <<config, now, down, obs, channel>>

\* time passes when no timer is due
Tick ==
  /\ now < MaxTicks * Quantum
  /\ \A t \in window.timers : t.due > now
  /\ now' = now + Quantum
  /\ window' = Begin(window)
  /\ ev' = [op |-> "tick", rep |-> FALSE]
  /\ UNCHANGED <<config, down, obs, channel>>

Next ==
  \/ \E role \in Roles : KeyPress(role)
  \/ \E role \in Roles : KeyRelease(role)
  \/ \E t \in window.timers : EndCharacterTimeout(t)
  \/ \E t \in window.timers : FastRepeatTimeout(t)
  \/ \E t \in window.timers : StickyRepeatTimeout(t)
  \/ Tick

Spec == Init /\ [][Next]_vars

\* ---- the decoder with a layout file of two layouts and mouse actions ----
\* TwoKey without fast repeat on a machine where the mouse library works, and
\* ThreeKey with fast repeat on one where its calls raise
ConfigsLayouts ==
  { c \in [keylen : {2, 3}, fastMorseMode : BOOLEAN,
           maxDitTime : {Quantum}, minLetterPause : {2 * Quantum},
           mainlayout : {"main"}, mouse_raises : BOOLEAN,
           keyone : {"SPACE"}, keytwo : {"ENTER"}, keythree : {"RCTRL"}, platform : {"Linux"}] :
      /\ c.fastMorseMode = (c.keylen = 3)
      /\ c.mouse_raises = (c.keylen = 3) }

InitLayouts == Start(ConfigsLayouts)

SpecLayouts == InitLayouts /\ [][Next]_vars

\* ---- the dispatcher alone, on the typing layout ----
ConfigsTyping == [keylen : {3}, fastMorseMode : {FALSE},
                  maxDitTime : {Quantum}, minLetterPause : {2 * Quantum},
                  mainlayout : {"typing"}, mouse_raises : {FALSE},
            keyone : {"SPACE"}, keytwo : {"ENTER"}, keythree : {"RCTRL"}, platform : {"Linux"}]

Codes == { <<Dit>>, <<Dah>>, <<Dit, Dit>>, <<Dit, Dah>>, <<Dah, Dit>>, <<Dah, Dah>> }

InitTyping == Start(ConfigsTyping)

\* endCharacter -> handleMorseCode(currentCharacter), for a finalized character
DispatchCode(character) ==
  LET w == handleMorseCode(Begin(window), character)
  IN /\ Len(obs.codes) < MaxCodes
     /\ window' = w
     /\ ev' = [op |-> "dispatch", rep |-> FALSE]
     /\ obs' = [obs EXCEPT !.codes = Append(@, character), !.out = @ \o w.keys]
     /\ UNCHANGED <<config, now, down, channel>>

NextTyping == \E character \in Codes : DispatchCode(character)

SpecTyping == InitTyping /\ [][NextTyping]_vars

\* ---- TwoKey mode with fast repeat, the Primary key operated alone ----
\* No Dah is ever appended, so no code resolves to REPEATMODE and no
\* sticky-repeat timer exists.
ConfigsHold == [keylen : {2}, fastMorseMode : {TRUE},
                maxDitTime : {Quantum}, minLetterPause : {2 * Quantum},
                mainlayout : {"basic"}, mouse_raises : {FALSE},
            keyone : {"SPACE"}, keytwo : {"ENTER"}, keythree : {"RCTRL"}, platform : {"Linux"}]

InitHold == Start(ConfigsHold)

\* KeyListenerThread.on_press -> keyEvent -> Window.handle_key_event(key, True, 0)
HoldPress ==
  LET w == handle_key_event(Begin(window), TRUE, 0)
  IN /\ window.listenerThread
     /\ Len(w.currentCharacter) <= HoldLen
     /\ window' = w
     /\ down' = [down EXCEPT ![0] = TRUE]
     /\ ev' = [op |-> "press", rep |-> window.repeaton]
     /\ obs' = [obs EXCEPT !.t = now, !.typed = w.currentCharacter, !.fins = <<>>]
     /\ UNCHANGED <<config, now, channel>>

\* KeyListenerThread.on_release -> keyEvent -> Window.handle_key_event(key, False, 0)
HoldRelease ==
  LET w == handle_key_event(Begin(window), FALSE, 0)
  IN /\ window.listenerThread
     /\ down[0]
     /\ window' = w
     /\ down' = [down EXCEPT ![0] = FALSE]
     /\ ev' = [op |-> "release", rep |-> FALSE]
     /\ obs' = [obs EXCEPT !.t = now, !.typed = w.currentCharacter, !.fins = <<>>]
     /\ UNCHANGED <<config, now, channel>>

\* fast_morse_mode_timer.timeout -> repeat_key(key, role) (periodic)
HoldFastRepeatTimeout(t) ==
  LET rearmed == (window.timers \ {t}) \cup {[t EXCEPT !.due = now + FastInterval]}
      w == repeat_key([Begin(window) EXCEPT !.timers = rearmed], t.role)
  IN /\ t.kind = "fast" /\ t.due <= now
     /\ Len(w.currentCharacter) <= HoldLen
     /\ window' = w
     /\ ev' = [op |-> "fast", rep |-> FALSE]
     /\ UNCHANGED <<config, now, down, obs, channel>>

\* time passes when no timer is due
HoldTick ==
  /\ now < HoldTicks * Quantum
  /\ \A t \in window.timers : t.due > now
  /\ now' = now + Quantum
  /\ window' = Begin(window)
  /\ ev' = [op |-> "tick", rep |-> FALSE]
  /\ UNCHANGED <<config, down, obs, channel>>

NextHold ==
  \/ HoldPress
  \/ HoldRelease
  \/ \E t \in window.timers : EndCharacterTimeout(t)
  \/ \E t \in window.timers : HoldFastRepeatTimeout(t)
  \/ HoldTick

SpecHold == InitHold /\ [][NextHold]_vars

\* ---- the decoder with the tray menu's Open Settings (stopIt) ----
ConfigsStop == [keylen : {2}, fastMorseMode : {TRUE},
                maxDitTime : {Quantum}, minLetterPause : {2 * Quantum},
                mainlayout : {"basic"}, mouse_raises : {FALSE},
            keyone : {"SPACE"}, keytwo : {"ENTER"}, keythree : {"RCTRL"}, platform : {"Linux"}]

InitStop == Start(ConfigsStop)

\* onOpenSettings -> backToSettings -> stopIt; the keyboard hooks are removed,
\* so the keys that are down are released without an event
StopIt ==
  /\ window.listenerThread
  /\ window' = stopIt(Begin(window))
  /\ down' = [r \in Roles |-> FALSE]
  /\ ev' = [op |-> "stop", rep |-> FALSE]
  /\ UNCHANGED <<config, now, obs, channel>>

NextStop ==
  \/ \E role \in Roles : KeyPress(role)
  \/ \E role \in Roles : KeyRelease(role)
  \/ \E t \in window.timers : EndCharacterTimeout(t)
  \/ \E t \in window.timers : FastRepeatTimeout(t)
  \/ \E t \in window.timers : StickyRepeatTimeout(t)
  \/ Tick
  \/ StopIt

SpecStop == InitStop /\ [][NextStop]_vars

\* ---- the launch, the settings dialog and the key listener ----
\* key_data: the key_code of the keys the settings dialog offers
key_code ==
  [SPACE |-> "space", ENTER |-> "enter", RCTRL |-> "right ctrl",
   LCTRL |-> "ctrl", ALT |-> "alt"]

\* Window.get_configured_keys
get_configured_keys ==
  << key_code[config.keyone], key_code[config.keytwo], key_code[config.keythree] >>

\* goForIt, line 994
warn_user(key_one, key_two, key_three) ==
  \/ TwoKey /\ key_one = key_two
  \/ ThreeKey /\ (key_one = key_two \/ key_one = key_three \/ key_two = key_three)

\* goForIt, lines 1007-1009
goForIt(s) == IF s.listenerThread THEN init(s) ELSE startKeyListener(init(s))

\* KeyListenerThread.run, lines 474-477: on MacOS only modifier keys are kept
allowed_keys == {"shift", "ctrl", "alt", "cmd"}

\* self.configured_keys of the listener thread once run has set up its hooks
configured_keys ==
  IF config.platform = "Darwin"
    THEN SelectSeq(get_configured_keys, LAMBDA key : key \in allowed_keys)
    ELSE get_configured_keys

\* KeyListenerThread.run registers one press hook and one release hook for every
\* entry of configured_keys; the keyboard library calls each hook of a key
Hooks(key) ==
  Cardinality({ i \in 1..Len(configured_keys) : configured_keys[i] = key })

\* variant: the role is the position of the key in the configuration
RoleOf_Configured(key) ==
  (CHOOSE i \in 1..3 : /\ get_configured_keys[i] = key
                       /\ \A j \in 1..3 : get_configured_keys[j] = key => i <= j) - 1

\* self.configured_keys.index(event.name)
RoleOf(key) ==
  (CHOOSE i \in 1..Len(configured_keys) :
     /\ configured_keys[i] = key
     /\ \A j \in 1..Len(configured_keys) : configured_keys[j] = key => i <= j) - 1

\* variant: the signal is handled before the signals queued earlier
emit_Overtakes(ch, event) == <<event>> \o ch

\* keyEvent.emit from the thread of the keyboard library: the connection to
\* Window.handle_key_event is queued
emit(ch, event) == Append(ch, event)

\* the callbacks of the hooks of a key, each emitting (event.name, is_press, role)
RECURSIVE Callbacks(_, _, _)
Callbacks(ch, event, n) == IF n = 0 THEN ch ELSE Callbacks(emit(ch, event), event, n - 1)

\* two keys the dialog offers, in TwoKey mode, with or without autostart
ConfigsBridge == [keylen : {2}, fastMorseMode : {FALSE},
                  maxDitTime : {Quantum}, minLetterPause : {2 * Quantum},
                  mainlayout : {"basic"}, mouse_raises : {FALSE},
                  keyone : {"SPACE"}, keytwo : {"SPACE", "ENTER"},
                  keythree : {"RCTRL"}, platform : {"Linux"}, autostart : BOOLEAN]

\* the key the user operates: Primary, Secondary or both, as configured
PressedKeys == {"space"}

\* __main__ up to window.postInit()
InitBridge == Launch(ConfigsBridge) /\ window = Window__init__

\* __main__, lines 1752-1754
Autostart ==
  /\ ev.op = "init" /\ config.autostart
  /\ window' = start(Begin(window))
  /\ ev' = [op |-> "start", rep |-> FALSE]
  /\ obs' = [obs EXCEPT !.starts = @ + 1]
  /\ UNCHANGED <<config, now, down, channel>>

\* the GO button of the settings dialog, with the keys selected in the combo
\* boxes; the dialog is shown when __main__ did not autostart and after stopIt
GoForIt(key_one, key_two) ==
  /\ ~(ev.op = "init" /\ config.autostart)
  /\ ~window.listenerThread
  /\ IF warn_user(key_one, key_two, config.keythree)
       THEN /\ window' = Begin(window)
            /\ ev' = [op |-> "warn", rep |-> FALSE]
            /\ UNCHANGED <<config, obs>>
       ELSE /\ obs.starts < MaxStarts
            /\ config' = [config EXCEPT !.keyone = key_one, !.keytwo = key_two]
            /\ window' = goForIt(Begin(window))
            /\ ev' = [op |-> "go", rep |-> FALSE]
            /\ obs' = [obs EXCEPT !.starts = @ + 1]
  /\ UNCHANGED <<now, down, channel>>

\* KeyListenerThread.on_press, called by the keyboard library for a hooked key
HookPress(key) ==
  LET event == [key |-> key, is_press |-> TRUE, role |-> RoleOf(key)]
  IN /\ window.listenerThread
     /\ Hooks(key) > 0
     /\ Len(obs.raised) + Hooks(key) <= MaxEvents
     /\ channel' = Callbacks(channel, event, Hooks(key))
     /\ obs' = [obs EXCEPT !.raised = @ \o [i \in 1..Hooks(key) |-> event]]
     /\ down' = [down EXCEPT ![RoleOf(key)] = TRUE]
     /\ window' = Begin(window)
     /\ ev' = [op |-> "hook", rep |-> FALSE]
     /\ UNCHANGED <<config, now>>

\* KeyListenerThread.on_release
HookRelease(key) ==
  LET event == [key |-> key, is_press |-> FALSE, role |-> RoleOf(key)]
  IN /\ window.listenerThread
     /\ Hooks(key) > 0
     /\ down[RoleOf(key)]
     /\ Len(obs.raised) + Hooks(key) <= MaxEvents
     /\ channel' = Callbacks(channel, event, Hooks(key))
     /\ obs' = [obs EXCEPT !.raised = @ \o [i \in 1..Hooks(key) |-> event]]
     /\ down' = [down EXCEPT ![RoleOf(key)] = FALSE]
     /\ window' = Begin(window)
     /\ ev' = [op |-> "hook", rep |-> FALSE]
     /\ UNCHANGED <<config, now>>

\* the event loop of the Window's thread calls handle_key_event for the oldest
\* queued signal
Deliver ==
  LET event == Head(channel)
      w == handle_key_event(Begin(window), event.is_press, event.role)
  IN /\ channel # <<>>
     /\ Within(w)
     /\ window' = w
     /\ channel' = Tail(channel)
     /\ ev' = [op |-> IF event.is_press THEN "press" ELSE "release",
               rep |-> event.is_press /\ window.repeaton]
     /\ obs' = [obs EXCEPT !.t = now, !.typed = w.currentCharacter, !.fins = <<>>,
                           !.delivered = Append(@, event)]
     /\ UNCHANGED <<config, now, down>>

\* no sticky-repeat timer is started within MaxEvents signals of one key
NextBridge ==
  \/ Autostart
  \/ \E key_one, key_two \in {"SPACE", "ENTER"} : GoForIt(key_one, key_two)
  \/ StopIt
  \/ \E key \in PressedKeys : HookPress(key)
  \/ \E key \in PressedKeys : HookRelease(key)
  \/ Deliver
  \/ \E t \in window.timers : EndCharacterTimeout(t)
  \/ Tick

SpecBridge == InitBridge /\ [][NextBridge]_vars

\* ---- the key listener on Linux and on MacOS ----
\* Primary on the space bar, Secondary on enter or left ctrl, Tertiary on alt
ConfigsKeys == [keylen : {2}, fastMorseMode : {FALSE},
                maxDitTime : {Quantum}, minLetterPause : {2 * Quantum},
                mainlayout : {"basic"}, mouse_raises : {FALSE},
                keyone : {"SPACE"}, keytwo : {"ENTER", "LCTRL"},
                keythree : {"ALT"}, platform : {"Linux", "Darwin"}]

\* the physical keys the user operates
PhysicalKeys == {"space", "enter", "ctrl", "alt"}

InitKeys == Start(ConfigsKeys)

\* a sticky-repeat timer started within MaxEvents signals is not due before
\* the clock stops
NextKeys ==
  \/ \E key \in PhysicalKeys : HookPress(key)
  \/ \E key \in PhysicalKeys : HookRelease(key)
  \/ Deliver
  \/ \E t \in window.timers : EndCharacterTimeout(t)
  \/ Tick

SpecKeys == InitKeys /\ [][NextKeys]_vars

\* ---- the decoder stopped from the tray menu and started again ----
\* TwoKey with fast repeat on the layout file of two layouts; the program was
\* launched with autostart, the GO button starts it again after stopIt
ConfigsRestart == [keylen : {2}, fastMorseMode : {TRUE},
                   maxDitTime : {Quantum}, minLetterPause : {2 * Quantum},
                   mainlayout : {"main"}, mouse_raises : {FALSE},
                   keyone : {"SPACE"}, keytwo : {"ENTER"}, keythree : {"RCTRL"},
                   platform : {"Linux"}, autostart : {TRUE}]

InitRestart == Start(ConfigsRestart)

NextRestart ==
  \/ \E role \in Roles : KeyPress(role)
  \/ \E role \in Roles : KeyRelease(role)
  \/ \E t \in window.timers : EndCharacterTimeout(t)
  \/ \E t \in window.timers : FastRepeatTimeout(t)
  \/ \E t \in window.timers : StickyRepeatTimeout(t)
  \/ Tick
  \/ StopIt
  \/ GoForIt(config.keyone, config.keytwo)

SpecRestart == InitRestart /\ [][NextRestart]_vars

\* ---- the dispatcher alone, on a layout of the mouse actions ----
ConfigsMouse == [keylen : {3}, fastMorseMode : {FALSE},
                 maxDitTime : {Quantum}, minLetterPause : {2 * Quantum},
                 mainlayout : {"mouse"}, mouse_raises : {FALSE},
                 keyone : {"SPACE"}, keytwo : {"ENTER"}, keythree : {"RCTRL"},
                 platform : {"Linux"}]

\* the codes of up to four symbols
MouseCodes == UNION { [1..n -> {Dit, Dah}] : n \in 1..4 }

InitMouse == Start(ConfigsMouse)

\* mouse.move(x, y, absolute=False) adds to the position of the pointer
RECURSIVE MovePointer(_, _)
MovePointer(pointer, calls) ==
  IF calls = <<>> THEN pointer
  ELSE LET c == Head(calls)
           moved == IF c.call # "move" THEN pointer
                    ELSE IF c.absolute THEN <<c.x, c.y>>
                    ELSE <<pointer[1] + c.x, pointer[2] + c.y>>
       IN MovePointer(moved, Tail(calls))

\* mouse.press holds the button, mouse.release lets it go, mouse.click presses
\* and releases it
RECURSIVE HoldButtons(_, _)
HoldButtons(buttons, calls) ==
  IF calls = <<>> THEN buttons
  ELSE LET c == Head(calls)
           held == IF c.call = "press" THEN buttons \cup {c.button}
                   ELSE IF c.call \in {"release", "click"} THEN buttons \ {c.button}
                   ELSE buttons
       IN HoldButtons(held, Tail(calls))

\* endCharacter -> handleMorseCode(currentCharacter), for a finalized character
DispatchMouse(character) ==
  LET w == handleMorseCode(Begin(window), character)
  IN /\ Len(obs.codes) < MaxMouse
     /\ window' = w
     /\ ev' = [op |-> "dispatch", rep |-> FALSE]
     /\ obs' = [obs EXCEPT !.codes = Append(@, character),
                           !.pointer = MovePointer(@, w.mouse),
                           !.buttons = HoldButtons(@, w.mouse)]
     /\ UNCHANGED <<config, now, down, channel>>

NextMouse == \E character \in MouseCodes : DispatchMouse(character)

SpecMouse == InitMouse /\ [][NextMouse]_vars

\* ---- properties ----

EndTimers == { t \in window.timers : t.kind = "end" }
FastTimers == { t \in window.timers : t.kind = "fast" }
RepeatTimers == { t \in window.timers : t.kind = "repeat" }

Performed(action) == \E i \in 1..Len(window.perf) : window.perf[i].action = action

\* C1: in OneKey mode the release that closes the recorded press appends exactly
\* one symbol, Dit when release time minus lastKeyDownTime is below maxDitTime and
\* Dah when it is equal or above, and no other step appends a symbol.
C1_OneKeyClassification ==
  [][ OneKey =>
        /\ (window.lastKeyDownTime # None /\ window'.lastKeyDownTime = None)
             => window'.currentCharacter =
                  Append(window.currentCharacter,
                         IF now - window.lastKeyDownTime < config.maxDitTime
                           THEN Dit ELSE Dah)
        /\ Len(window'.currentCharacter) > Len(window.currentCharacter)
             => (window.lastKeyDownTime # None /\ window'.lastKeyDownTime = None) ]_vars

\* a hold of exactly maxDitTime from time 0 has just been released and gave a Dah
C1_Witness ==
  /\ OneKey /\ ev.op = "release"
  /\ now = config.maxDitTime
  /\ window.currentCharacter = <<Dah>>

C3_ThreeKeyNoTimeout ==
  [][ ThreeKey =>
        /\ { t \in window'.timers : t.kind = "end" } = {}
        /\ window'.endCharacterTimer = None
        /\ NonEmptyCodes(window'.fin) # <<>> => KeyPress(2) ]_vars

\* Primary, Primary, Tertiary: ".." is finalized by the Tertiary press, at time 0
C3_Witness ==
  /\ ThreeKey /\ ev.op = "press" /\ down[2]
  /\ window.fin = << <<Dit, Dit>> >>
  /\ window.currentCharacter = <<>>
  /\ now = 0

\* C4: in TwoKey and ThreeKey mode every press of a Primary or Secondary key that
\* is not already down appends its symbol (Dit, Dah) at the press, whatever other
\* key is held.
C4_EveryPressAppends ==
  [][ \A r \in {0, 1} :
        (~OneKey /\ ~down[r] /\ down'[r])
          => window'.currentCharacter = Append(window.currentCharacter, r + 1) ]_vars

\* C5: a press event of a configured role whose key is already down (no release
\* of that role in between) appends no symbol, leaves lastKeyDownTime alone and
\* arms no fast-repeat timer.
C5_RepeatedPressIgnored ==
  [][ \A r \in 0..(config.keylen - 1) :
        (down[r] /\ KeyPress(r))
          => /\ window'.currentCharacter = window.currentCharacter
             /\ window'.lastKeyDownTime = window.lastKeyDownTime
             /\ { t \in window'.timers : t.kind = "fast" } \subseteq window.timers ]_vars

\* C6: in OneKey mode the Secondary and Tertiary keys append no symbol and start
\* no timer, and in OneKey and TwoKey mode a Tertiary press finalizes nothing.
C6_UnconfiguredRolesInert ==
  [][ /\ (OneKey /\ \E r \in {1, 2} : KeyPress(r) \/ KeyRelease(r))
           => /\ window'.currentCharacter = window.currentCharacter
              /\ window'.timers \subseteq window.timers
      /\ ((OneKey \/ TwoKey) /\ KeyPress(2))
           => NonEmptyCodes(window'.fin) = <<>> ]_vars

\* C7: in OneKey and TwoKey mode no boundary timer is pending while a press is
\* recorded as open, and the boundary timer never fires while a key is down.
C7_PressCancelsBoundaryTimer ==
  (OneKey \/ TwoKey) =>
    /\ window.lastKeyDownTime # None => EndTimers = {}
    /\ ev.op = "end" => \A r \in Roles : ~down[r]

\* C8: after a press event no sticky-repeat tick dispatches previousCharacter
\* until a later endCharacter starts sticky repeat again.
C8_PressCancelsStickyRepeat ==
  (ev.op = "repeat" /\ window.previousCharacter # <<>>) => ~obs.interrupted

\* C9: at most one running timer of each kind, and each running timer is the one
\* its handle references.
C9_OneTimerPerRole ==
  /\ Cardinality(EndTimers) <= 1
  /\ Cardinality(FastTimers) <= 1
  /\ Cardinality(RepeatTimers) <= 1
  /\ \A t \in EndTimers : t.id = window.endCharacterTimer
  /\ \A t \in FastTimers : t.id = window.fast_morse_mode_timer
  /\ \A t \in RepeatTimers : t.id = window.repeat_character_timer

\* C10 (as amended): after a press event, unless that press itself finalized a
\* code whose action is RepeatOnAction, repeaton is false and the sticky-repeat
\* handle is cleared.
C10_PressResetsRepeat ==
  (ev.op = "press" /\ ~Performed("RepeatOnAction"))
    => /\ ~window.repeaton
       /\ window.repeat_character_timer = None

\* a press arrived while repeaton was set, and cleared it
C10_Witness ==
  /\ ev.op = "press" /\ ev.rep
  /\ ~Performed("RepeatOnAction")
  /\ ~window.repeaton

\* C10 (as stated): after every press event repeaton is false and the
\* sticky-repeat handle is cleared.
C10_AsStated ==
  ev.op = "press" => (~window.repeaton /\ window.repeat_character_timer = None)

\* C11: a sticky-repeat timer is started (the handle references a timer it did
\* not reference before the step, or one set after a press cleared it) only in a
\* step that ran endCharacter and ends with repeaton set and previousCharacter
\* non-empty; a step that performs RepeatOnAction synthesizes no key and sets
\* repeaton.
C11_RepeatStartsOnlyAtFinalization ==
  [][ /\ ( /\ window'.repeat_character_timer # None
           /\ \/ window'.repeat_character_timer # window.repeat_character_timer
              \/ ev'.op = "press" )
        => /\ window'.fin # <<>>
           /\ window'.repeaton
           /\ window'.previousCharacter # <<>>
      /\ { t.id : t \in { u \in window'.timers : u.kind = "repeat" } }
           \subseteq {window'.repeat_character_timer} \cup
                     { t.id : t \in { u \in window.timers : u.kind = "repeat" } }
      /\ (\E i \in 1..Len(window'.perf) : window'.perf[i].action = "RepeatOnAction")
        => (window'.keys = <<>> /\ window'.repeaton) ]_vars

\* the step that finalized the REPEATMODE code started the timer for ".", the
\* character finalized before it
C11_Witness ==
  /\ Performed("RepeatOnAction")
  /\ window.fin = << <<Dah>> >>
  /\ window.previousCharacter = <<Dit>>
  /\ window.repeat_character_timer # None
  /\ \E t \in RepeatTimers : t.id = window.repeat_character_timer /\ t.due = now + RepeatInterval

\* C12: a sticky-repeat tick performs what was performed when previousCharacter
\* was finalized, whatever layout is active at the tick.
C12_RepeatPerformsOriginalAction ==
  ev.op = "repeat" => window.perf = window.dispatched

\* C13: a step in which endCharacter ran on an empty currentCharacter performs
\* no action, leaves previousCharacter as it was, starts no sticky-repeat timer
\* and, unless the step is a press (which resets repeat mode), leaves repeaton as
\* it was.
C13_EmptyFinalizationIsNoOp ==
  [][ window'.fin = << <<>> >>
        => /\ window'.perf = <<>>
           /\ window'.currentCharacter = <<>>
           /\ window'.previousCharacter = window.previousCharacter
           /\ { t.id : t \in { u \in window'.timers : u.kind = "repeat" } }
                \subseteq { t.id : t \in { u \in window.timers : u.kind = "repeat" } }
           /\ ev'.op # "press" => window'.repeaton = window.repeaton ]_vars

Unresolved == { <<Dit, Dit>>, <<Dit, Dah>>, <<Dah, Dit>>, <<Dah, Dah>> }

\* C15: after a step that finalized a code with no item, or with an item without
\* action, in the active layout, nothing was performed or synthesized, no error
\* was raised, currentCharacter is empty and no boundary timer is pending.
C15_UnresolvedCodeDropped ==
  ( /\ window.active_layout_name = "basic"
    /\ \E i \in 1..Len(window.fin) : window.fin[i] \in Unresolved )
  => /\ window.perf = <<>>
     /\ window.keys = <<>>
     /\ window.errors = <<>> /\ ~window.exc
     /\ window.currentCharacter = <<>>
     /\ window.endCharacterTimer = None
     /\ EndTimers = {}

\* TwoKey: ".-", which the layout has no item for, was finalized by the boundary timer
C15_Witness ==
  /\ TwoKey /\ ev.op = "end"
  /\ window.fin = << <<Dit, Dah>> >>
  /\ window.perf = <<>>
  /\ window.currentCharacter = <<>>

\* C16: after a step whose dispatch called the mouse action on a machine where
\* the mouse call raises, the exception has been caught and logged; when the
\* step was a finalization, currentCharacter is empty, no boundary timer is
\* pending, and previousCharacter, repeaton and the sticky-repeat handle are as
\* after the dispatch of an action without effect on the engine.
C16_RaisedErrorContained ==
  (config.mouse_raises /\ Performed("ActionLegacy"))
    => /\ ~window.exc
       /\ window.errors = <<"12">>
       /\ window.fin # <<>>
            => /\ window.currentCharacter = <<>>
               /\ window.endCharacterTimer = None
               /\ EndTimers = {}
               /\ window.previousCharacter = <<Dit, Dah>>
               /\ ~window.repeaton
               /\ window.repeat_character_timer = None

\* ThreeKey: ".-" was finalized by a Tertiary press and its mouse action raised
C16_Witness ==
  /\ config.mouse_raises /\ ev.op = "press"
  /\ window.fin = << <<Dit, Dah>> >>
  /\ Performed("ActionLegacy")
  /\ window.errors # <<>>
  /\ window.currentCharacter = <<>>

\* C17: a step that performed an ActionKeyStroke synthesized the key of that
\* action first, whether or not a TypeState object is attached.
C17_KeystrokeSynthesized ==
  \A i \in 1..Len(window.perf) :
    window.perf[i].action = "ActionKeyStroke"
      => (window.keys # <<>> /\ window.keys[1] = window.perf[i].key)

\* the keys synthesized so far that are backspaces
Backspaces == SelectSeq(obs.out, LAMBDA k : k = "backspace")

\* C18: once the keystroke actions of b, r, b and space have been performed on
\* an empty text, the keys synthesized are b, r, b and space, three backspaces
\* and one expansion "be right back" with its trailing space, and nothing else.
C18_OneExpansionOfBrb ==
  obs.codes = << <<Dit>>, <<Dah>>, <<Dit>>, <<Dit, Dit>> >>
    => /\ Len(Backspaces) = 3
       /\ Len(obs.out) = 4 + 3 + Len(Abbreviations.expansion) + 1

\* C19: after a step that performed the prediction-select action of a slot
\* within the prediction list, with a TypeState object attached, the text ends
\* with the selected prediction and a space and keys were synthesized.
C19_PredictionSelected ==
  \A i \in 1..Len(window.perf) :
    ( /\ window.perf[i].action = "PredictionSelectLayoutAction"
      /\ ~window.typestate.is_none
      /\ window.perf[i].slot >= 0 /\ window.perf[i].slot < Len(Predictions) )
    => LET wanted == Predictions[window.perf[i].slot + 1] \o <<" ">>
           text == window.typestate.text
       IN /\ Len(text) >= Len(wanted)
          /\ SubSeq(text, Len(text) - Len(wanted) + 1, Len(text)) = wanted
          /\ window.keys # <<>>

\* C20: a step that performed a ChangeLayoutAction raised nothing; it leaves the
\* layout named by the action active when the layout file has it, and the
\* active layout as it was otherwise.
C20_ChangeLayout ==
  [][ \A i \in 1..Len(window'.perf) :
        window'.perf[i].action = "ChangeLayoutAction"
          => /\ ~window'.exc /\ window'.errors = <<>>
             /\ IF window'.perf[i].target \in DOMAIN Layouts
                  THEN window'.active_layout_name = window'.perf[i].target
                  ELSE window'.active_layout_name = window.active_layout_name ]_vars

\* the action naming the unknown layout was performed and "main" is still active
C20_Witness ==
  /\ \E i \in 1..Len(window.perf) :
        /\ window.perf[i].action = "ChangeLayoutAction"
        /\ window.perf[i].target = "nowhere"
  /\ window.active_layout_name = "main"
  /\ window.errors = <<>>

\* C21: a step that leaves another layout active than the one before it (a
\* ChangeLayoutAction performed by a finalization or by a sticky-repeat tick)
\* leaves no symbol of an open character in currentCharacter.
C21_NoSwitchMidCharacter ==
  [][ window'.active_layout_name # window.active_layout_name
        => window'.currentCharacter = <<>> ]_vars

\* C22: in TwoKey mode with fast repeat, the release of a Primary key that was
\* pressed on an empty buffer and held for five repeat intervals (500 ms), with
\* no other key event and no finalization in between, leaves exactly 5 Dit
\* symbols in currentCharacter.
C22_FiveDitsIn500ms ==
  [][ ( /\ TwoKey /\ config.fastMorseMode
        /\ HoldRelease
        /\ window.lastKeyDownTime # None
        /\ now - window.lastKeyDownTime = 5 * FastInterval
        /\ obs.t = window.lastKeyDownTime /\ obs.typed = <<Dit>> /\ obs.fins = <<>> )
      => window'.currentCharacter = <<Dit, Dit, Dit, Dit, Dit>> ]_vars

\* C23: in OneKey mode a press of any hooked key appends no symbol and starts
\* no timer, with fastMorseMode on or off; it records the time of the press when
\* no press is recorded as open; and a fast-repeat timer runs only in TwoKey or
\* ThreeKey mode.
C23_OneKeyPressOnlyRecordsTime ==
  [][ /\ (OneKey /\ \E r \in Roles : KeyPress(r))
           => /\ window'.currentCharacter = window.currentCharacter
              /\ window'.timers \subseteq window.timers
              /\ window'.fast_morse_mode_timer = None
              /\ window'.lastKeyDownTime =
                   IF window.lastKeyDownTime = None THEN now ELSE window.lastKeyDownTime
      /\ { t \in window'.timers : t.kind = "fast" } # {} => (TwoKey \/ ThreeKey) ]_vars

\* OneKey with fastMorseMode set: a press at 100 ms recorded its time and nothing else
C23_Witness ==
  /\ OneKey /\ config.fastMorseMode
  /\ ev.op = "press" /\ now = Quantum
  /\ window.lastKeyDownTime = now
  /\ window.currentCharacter = <<>>
  /\ FastTimers = {}

\* C24: once stopIt has run, no timer is running, currentCharacter and
\* previousCharacter are empty, repeaton is false, and no step appends a
\* symbol, finalizes or performs an action.
C24_QuiescentAfterStop ==
  ~window.listenerThread
    => /\ window.timers = {}
       /\ window.endCharacterTimer = None
       /\ window.fast_morse_mode_timer = None
       /\ window.repeat_character_timer = None
       /\ window.currentCharacter = <<>>
       /\ window.previousCharacter = <<>>
       /\ ~window.repeaton
       /\ window.fin = <<>>
       /\ window.perf = <<>>

\* C25: the key listener never runs in TwoKey or ThreeKey mode with two roles
\* of that arity bound to the same key, whether it was started by the GO button
\* or by autostart.
C25_NoStartWithDuplicateKeys ==
  window.listenerThread => ~warn_user(config.keyone, config.keytwo, config.keythree)

C27_BoundaryTimerRestarted ==
  [][ ( /\ TwoKey
        /\ \E t \in window.timers : EndCharacterTimeout(t)
        /\ window.lastKeyDownTime # None /\ ~down[2]
        /\ window.currentCharacter # <<>> )
      => now - window.lastKeyDownTime >= config.minLetterPause ]_vars

\* C28: a step performs at most one action, and only when it finalized a code or
\* is a sticky-repeat tick; the action is the one of the item of the layout
\* active before the step whose code equals the whole finalized code (the whole
\* previousCharacter at a tick); a finalized code that no item with an action
\* equals performs nothing; and a step that appends a symbol performs nothing.
C28_ExactMatchAtFinalization ==
  [][ LET items == Layouts[window.active_layout_name]
          code == MorseCodeString(IF ev'.op = "repeat" THEN window.previousCharacter
                                  ELSE IF window'.fin # <<>> THEN window'.fin[1] ELSE <<>>)
          exact == { k \in 1..Len(items) : items[k].code = code /\ items[k]._action # "None" }
      IN /\ Len(window'.perf) <= 1
         /\ window'.perf # <<>>
              => /\ ev'.op = "repeat" \/ NonEmptyCodes(window'.fin) # <<>>
                 /\ window'.perf[1].code = code
                 /\ \E k \in exact : /\ items[k]._action = window'.perf[1].action
                                      /\ items[k].key = window'.perf[1].key
                                      /\ items[k].target = window'.perf[1].target
         /\ exact = {} => window'.perf = <<>>
         /\ Len(window'.currentCharacter) > Len(window.currentCharacter)
              => window'.perf = <<>> ]_vars

\* ".-" was finalized in layout main, where "." is a code too: the action of ".-"
\* was performed
C28_Witness ==
  /\ window.fin = << <<Dit, Dah>> >>
  /\ Len(window.perf) = 1
  /\ window.perf[1].code = "12" /\ window.perf[1].action = "ActionLegacy"
  /\ window.active_layout_name = "main"

\* the text after lines 739-744 of a keystroke action p performed by this step
TextAfterKey(p) ==
  LET text == window.typestate.text
  IN IF p.key \in {"backspace", "delete"}
       THEN (IF text = <<>> THEN <<>> ELSE SubSeq(text, 1, Len(text) - 1))
       ELSE Append(text, FindItem(window, p.code).character)

\* the trailing word of the text is a key of the abbreviation table
TrailingWordMatches(text) ==
  rstrip(text) # <<>> /\ LastWord(rstrip(text)) = Abbreviations.abbr

\* the backspaces a keystroke action synthesized after its own key
SynthesizedBackspaces(keys) ==
  Len(SelectSeq(Tail(keys), LAMBDA k : k = "backspace"))

\* C29: a step that performed a keystroke action with a TypeState object
\* attached synthesizes as many backspaces and pops as many characters as the
\* matched trailing word is long when the text after the key ends in a key of
\* the abbreviation table, and synthesizes no backspace and pops nothing when
\* it does not.
C29_EraseOnlyOnMatch ==
  [][\A i \in 1..Len(window'.perf) :
       (window'.perf[i].action = "ActionKeyStroke" /\ ~window.typestate.is_none)
         => LET text == TextAfterKey(window'.perf[i])
            IN IF TrailingWordMatches(text)
                 THEN /\ SynthesizedBackspaces(window'.keys) = Len(Abbreviations.abbr)
                      /\ Len(window'.typestate.text) = Len(text) - Len(Abbreviations.abbr)
                 ELSE /\ SynthesizedBackspaces(window'.keys) = 0
                      /\ window'.typestate.text = text]_vars

\* C30: a step that performed the keystroke action of backspace or delete with
\* a TypeState object attached popped one character of the text, nothing when
\* it was empty, and synthesized the key itself and no other key.
C30_BackspacePopsOneCharacter ==
  [][\A i \in 1..Len(window'.perf) :
       (/\ window'.perf[i].action = "ActionKeyStroke"
        /\ window'.perf[i].key \in {"backspace", "delete"}
        /\ ~window.typestate.is_none)
         => /\ window'.typestate.text = TextAfterKey(window'.perf[i])
            /\ window'.keys = <<window'.perf[i].key>>]_vars

\* a fast-repeat timer armed by this role is running in s
FastRepeatRunning(s, role) ==
  \E t \in s.timers : t.kind = "fast" /\ t.role = role

\* C31: a fast-repeat timer runs only while the key of the role that armed it
\* is held; a step that leaves that key held leaves the timer running, and the
\* step that releases it stops the timer.
C31_FastRepeatUntilArmingRelease ==
  [][/\ \A role \in Roles :
          (FastRepeatRunning(window, role) /\ down[role])
            => (FastRepeatRunning(window', role) <=> down'[role])
     /\ \A role \in Roles : FastRepeatRunning(window', role) => down'[role]]_vars

\* the key configured for a role: keyone, keytwo, keythree
ConfiguredKey(role) ==
  IF role = 0 THEN config.keyone ELSE IF role = 1 THEN config.keytwo ELSE config.keythree

\* C32: every signal the key listener emitted carries the role whose configured
\* key is the key of the event.
C32_RoleOfConfiguredKey ==
  \A i \in 1..Len(obs.raised) :
    key_code[ConfiguredKey(obs.raised[i].role)] = obs.raised[i].key

\* C33: the active layout name is set and is a key of the loaded layouts in
\* every reachable state, whatever ChangeLayoutAction targets were dispatched
\* and whether or not the engine was stopped and started again.
C33_ActiveLayoutIsLoaded ==
  /\ window.active_layout_name # ""
  /\ window.active_layout_name \in DOMAIN Layouts

\* after the engine was started again, a layout change to a name that is not
\* a loaded layout has just been dispatched
C33_Witness ==
  /\ obs.starts > 0
  /\ \E i \in 1..Len(window.perf) :
       /\ window.perf[i].action = "ChangeLayoutAction"
       /\ window.perf[i].target \notin DOMAIN Layouts

\* a release handled with no fast-repeat timer running raises nothing and
\* leaves the handle unset
ReleaseWithoutFastRepeat ==
  (ev'.op = "release" /\ window.fast_morse_mode_timer = None)
    => /\ window'.fast_morse_mode_timer = None
       /\ \A role \in Roles : ~on_release(Begin(window), role).exc

\* a finalization with no boundary timer pending raises nothing and leaves the
\* handle unset
FinalizationWithoutBoundaryTimer ==
  (window'.fin # <<>> /\ window.endCharacterTimer = None)
    => /\ window'.endCharacterTimer = None
       /\ ~endCharacter(Begin(window)).exc

\* a release with no open press appends no symbol and starts no timer
ReleaseWithoutOpenPress ==
  (ev'.op = "release" /\ window.lastKeyDownTime = None)
    => /\ window'.currentCharacter = window.currentCharacter
       /\ window'.endCharacterTimer = window.endCharacterTimer
       /\ window'.timers = window.timers

\* C34: stopping a timer that is not running is a no-op. A release with no
\* fast-repeat timer, a press with no sticky-repeat timer and a finalization
\* with no boundary timer raise nothing and leave the handle unset, except
\* that a press which itself finalizes the code of RepeatOnAction may start the
\* sticky-repeat timer; a release with no open press appends no symbol and
\* starts no boundary timer.
C34_CancellationIdempotent ==
  [][/\ ReleaseWithoutFastRepeat
     /\ (ev'.op = "press" /\ window.repeat_character_timer = None)
          => /\ \A role \in Roles : ~on_press(Begin(window), role).exc
             /\ \/ window'.repeat_character_timer = None
                \/ \E i \in 1..Len(window'.perf) : window'.perf[i].action = "RepeatOnAction"
     /\ FinalizationWithoutBoundaryTimer
     /\ ReleaseWithoutOpenPress]_vars

\* a release has been handled where fast repeat is off, so that no fast-repeat
\* timer was running, and the handle is unset
C34_Witness ==
  /\ ev.op = "release" /\ ~config.fastMorseMode
  /\ window.fast_morse_mode_timer = None

\* C34 as stated: every press handled with no sticky-repeat timer running
\* leaves the sticky-repeat handle unset.
C34_AsStated ==
  [][/\ ReleaseWithoutFastRepeat
     /\ (ev'.op = "press" /\ window.repeat_character_timer = None)
          => /\ \A role \in Roles : ~on_press(Begin(window), role).exc
             /\ window'.repeat_character_timer = None
     /\ FinalizationWithoutBoundaryTimer
     /\ ReleaseWithoutOpenPress]_vars

\* C35: a step that starts the engine again leaves it idle: currentCharacter
\* and previousCharacter are empty, repeat is off, no press is recorded as open
\* and no timer is running.
C35_IdleAfterRestart ==
  [][ev'.op = "go"
       => /\ window'.currentCharacter = <<>>
          /\ window'.previousCharacter = <<>>
          /\ ~window'.repeaton
          /\ window'.lastKeyDownTime = None
          /\ window'.timers = {}]_vars

\* C36: after a step that performed MOUSERELEASEHOLD no mouse button is held.
C36_ReleaseHoldReleasesAll ==
  (\E i \in 1..Len(window.perf) : window.perf[i].key = "MOUSERELEASEHOLD")
    => obs.buttons = {}

\* the direction names of the pointer-move actions and their signs on x and y
Directions ==
  [UP |-> <<0, -1>>, DOWN |-> <<0, 1>>, LEFT |-> <<-1, 0>>, RIGHT |-> <<1, 0>>,
   UPLEFT |-> <<-1, -1>>, UPRIGHT |-> <<1, -1>>,
   DOWNLEFT |-> <<-1, 1>>, DOWNRIGHT |-> <<1, 1>>]

StepClasses == {5, 40, 250}

\* C37: a step that performed the pointer-move action named MOUSE, a
\* direction and a step class called mouse.move once, relatively, and moved the
\* pointer by the step class along each axis the direction names, negative for
\* UP and LEFT, positive for DOWN and RIGHT, and by 0 along the other axis; it
\* pressed, released and clicked no button.
C37_PointerMoves ==
  [][\A i \in 1..Len(window'.perf) :
       \A d \in DOMAIN Directions : \A step \in StepClasses :
         window'.perf[i].key = "MOUSE" \o d \o ToString(step)
           => /\ Len(window'.mouse) = 1
              /\ window'.mouse[1].call = "move"
              /\ obs'.pointer = <<obs.pointer[1] + Directions[d][1] * step,
                                  obs.pointer[2] + Directions[d][2] * step>>
              /\ obs'.buttons = obs.buttons]_vars

\* MOUSEUPLEFT250 was performed after two other moves and the pointer is away
\* from where it started on both axes
C37_Witness ==
  /\ Len(obs.codes) = MaxMouse
  /\ \E i \in 1..Len(window.perf) : window.perf[i].key = "MOUSEUPLEFT250"
  /\ obs.pointer[1] < -250 /\ obs.pointer[2] < -250

====
